---- MODULE Spec2Model ----
(***************************************************************************)
(* Model of .github/scripts/update_authors.py: the contribution classifier *)
(* and the AUTHORS.md patch routine, with the read-modify-write of the     *)
(* document against the upstream contents API.                             *)
(***************************************************************************)
EXTENDS Naturals, Sequences, FiniteSets, TLC

VARIABLES
    upstream,    \* text of AUTHORS.md at the head of the upstream repository
    local,       \* local[w]: text of AUTHORS.md in working tree w
    head,        \* head[w]: text of AUTHORS.md in the HEAD commit of working tree w
    pc,          \* pc[w]: position of the invocation running in working tree w
    pr_number,   \* pr_number[w]: the invocation's pr_number
    is_dry_run,  \* is_dry_run[w]: the invocation's --dry-run flag
    category,    \* category[w]: the category chosen at lines 136-139
    read,        \* read[w]: the lines read at line 144
    content,     \* content[w]: the list `content` after the patch
    sha,         \* sha[w]: file_info["sha"] fetched at line 211
    outcome,     \* outcome[w]: how the last invocation in w ended
    pushed,      \* PR numbers whose invocation printed "Pushed changes"
    applied,     \* applied[w]: contributions patched into the text of local[w], in order
    appliedUp,   \* contributions patched into the text of upstream, in order
    runs,        \* number of invocations started
    original,    \* text of AUTHORS.md before the first invocation
    files,       \* classifier harness: the list of changed files
    chosen       \* classifier harness: the category chosen for `files`

vars == <<upstream, local, head, pc, pr_number, is_dry_run, category, read,
          content, sha, outcome, pushed, applied, appliedUp, runs,
          original, files, chosen>>

mainVars == <<upstream, local, head, pc, pr_number, is_dry_run, category, read,
              content, sha, outcome, pushed, applied, appliedUp, runs,
              original>>

\* ------------------------------------------------------------------ bounds
MaxRuns == 3
MaxFiles == 3

\* ------------------------------------------------------------ str helpers
\* str.startswith
StartsWith(s, p) == Len(s) >= Len(p) /\ SubSeq(s, 1, Len(p)) = p

\* str.endswith
EndsWith(s, p) == Len(s) >= Len(p) /\ SubSeq(s, Len(s) - Len(p) + 1, Len(s)) = p

\* `p in s` for strings
Contains(s, p) == \E i \in 1..(Len(s) - Len(p) + 1) : SubSeq(s, i, i + Len(p) - 1) = p

UpperAlpha == "ABCDEFGHIJKLMNOPQRSTUVWXYZ"
LowerAlpha == "abcdefghijklmnopqrstuvwxyz"

\* The lower-case letter of each upper-case letter.
LowerMap ==
    [c \in {SubSeq(UpperAlpha, i, i) : i \in 1..Len(UpperAlpha)} |->
        LET i == CHOOSE k \in 1..Len(UpperAlpha) : SubSeq(UpperAlpha, k, k) = c
        IN SubSeq(LowerAlpha, i, i)]

LowerChar(c) == IF c \in DOMAIN LowerMap THEN LowerMap[c] ELSE c

\* str.lower
RECURSIVE Lower(_)
Lower(s) ==
    IF Len(s) = 0 THEN ""
    ELSE LowerChar(SubSeq(s, 1, 1)) \o Lower(SubSeq(s, 2, Len(s)))

\* A text is held as the sequence of its pieces between line feeds: "a\nb" is
\* <<"a", "b">>, "a\n" is <<"a", "">>, the empty text is <<"">>.
RECURSIVE Pieces(_)
Pieces(t) ==
    LET nl == {i \in 1..Len(t) : SubSeq(t, i, i) = "\n"}
    IN IF nl = {} THEN <<t>>
       ELSE LET k == CHOOSE i \in nl : \A j \in nl : i <= j
            IN <<SubSeq(t, 1, k - 1)>> \o Pieces(SubSeq(t, k + 1, Len(t)))

\* str.splitlines of a text: its pieces, without the empty piece that follows a
\* final line feed (and none at all for the empty text).
SplitLines(text) ==
    IF text[Len(text)] = "" THEN SubSeq(text, 1, Len(text) - 1) ELSE text

\* "\n".join(lines), as a text.
Join(lines) == IF Len(lines) = 0 THEN <<"">> ELSE lines

\* A faulty insert: x takes the place of the line at i.
InsertOverwrite(lines, i, x) ==
    IF i <= Len(lines) THEN [lines EXCEPT ![i] = x] ELSE Append(lines, x)

\* list.insert(i, x), with i the 1-based position x takes.
InsertAt(lines, i, x) ==
    SubSeq(lines, 1, i - 1) \o <<x>> \o SubSeq(lines, i, Len(lines))

\* ---------------------------------------------------------- configuration
ENGINEERING_EXTENSIONS ==
    <<".gd", ".go", ".cpp", ".h", ".cs", ".rs", ".py", ".sh", ".bat", ".yml",
      ".yaml", ".sql", ".json", ".xml", ".ini", ".cfg", ".toml">>
ENGINEERING_CRITRIA == <<"added", "modified", "removed", "renamed">>
ART_EXTENSIONS ==
    <<".glb", ".gltf", ".fbx", ".png", ".jpg", ".jpeg", ".tga", ".wav", ".mp3",
      ".ogg", ".psd", ".xcf">>
ART_CRITRIA == <<"added", "modified", "removed", "renamed">>
DESIGN_EXTENSIONS == <<".tscn", ".tres">>
DESIGN_CRITRIA == <<"added", "modified", "removed", "renamed">>
COMMUNITY_EXTENSIONS == <<".md", ".translation">>
COMMUNITY_CRITRIA == <<"added", "modified", "removed", "renamed">>

Range(s) == {s[i] : i \in 1..Len(s)}

\* ------------------------------------------------------------- classifier
\* any(filename.endswith(ext) for ext in exts) and status in criteria
Counts(file, exts, criteria) ==
    LET filename == Lower(file.filename)
        status == Lower(file.status)
    IN /\ \E i \in 1..Len(exts) : EndsWith(filename, exts[i])
       /\ status \in Range(criteria)

Tally(fs, exts, criteria) ==
    Cardinality({i \in 1..Len(fs) : Counts(fs[i], exts, criteria)})

\* The dict contribution_categories after the loop, as its items in insertion
\* order: empty when there is no file, since the keys are set in the loop body.
ContributionCategories(fs) ==
    IF Len(fs) = 0 THEN <<>>
    ELSE << [key |-> "Engineering",
             val |-> Tally(fs, ENGINEERING_EXTENSIONS, ENGINEERING_CRITRIA)],
            [key |-> "Art",
             val |-> Tally(fs, ART_EXTENSIONS, ART_CRITRIA)],
            [key |-> "Design",
             val |-> Tally(fs, DESIGN_EXTENSIONS, DESIGN_CRITRIA)],
            [key |-> "Community & Support",
             val |-> Tally(fs, COMMUNITY_EXTENSIONS, COMMUNITY_CRITRIA)] >>

\* A faulty max: the last key with the greatest value.
MaxKeyLast(d) ==
    LET i == CHOOSE k \in 1..Len(d) :
                 /\ \A j \in 1..Len(d) : d[j].val <= d[k].val
                 /\ \A j \in (k + 1)..Len(d) : d[j].val < d[k].val
    IN d[i].key

\* max(d, key=d.get): the first key, in insertion order, with the greatest value.
MaxKey(d) ==
    LET i == CHOOSE k \in 1..Len(d) :
                 /\ \A j \in 1..Len(d) : d[j].val <= d[k].val
                 /\ \A j \in 1..(k - 1) : d[j].val < d[k].val
    IN d[i].key

\* Lines 136-139.
DominantCategory(fs) ==
    LET d == ContributionCategories(fs)
    IN IF Len(d) = 0 THEN "Community & Support" ELSE MaxKey(d)

\* ------------------------------------------------- GitHub API responses
\* The pull requests the API knows (GET pulls/{n}, pulls/{n}/files, users/{u}).
\* name is "" where the account has no display name (JSON null).
PullRequests ==
    [ n \in {"7", "8", "9"} |->
        CASE n = "7" ->
               [login |-> "ada", name |-> "Ada", profile_url |-> "ua", html_url |-> "p7",
                files |-> << [filename |-> "src/Main.GD", status |-> "modified"],
                             [filename |-> "icon.png", status |-> "added"],
                             [filename |-> "net/Peer.cs", status |-> "renamed"] >>]
          [] n = "8" ->
               [login |-> "ada", name |-> "Ada", profile_url |-> "ua", html_url |-> "p8",
                files |-> << [filename |-> "a.PNG", status |-> "added"],
                             [filename |-> "lvl.tscn", status |-> "modified"] >>]
          [] n = "9" ->
               [login |-> "bob", name |-> "", profile_url |-> "ub", html_url |-> "p9",
                files |-> << [filename |-> "tools/build.sh", status |-> "added"] >>] ]

\* account_details.get("name") or username
DisplayName(p) == IF p.name = "" THEN p.login ELSE p.name

\* f"- [{display_name}]({profile_url})"
ContributorFormat(display_name, profile_url) ==
    "- [" \o display_name \o "](" \o profile_url \o ")"

\* f"[#{pr_number}]({pr_url})"
RefTagFormat(n, pr_url) == "[#" \o n \o "](" \o pr_url \o ")"

\* ------------------------------------------------------ the patch routine
\* A faulty search: the first line that starts like a heading.
HeadingIndexPrefix(lines, cat) ==
    LET hits == {i \in 1..Len(lines) : StartsWith(lines[i], "###")}
    IN IF hits = {} THEN 0 ELSE CHOOSE i \in hits : \A j \in hits : i <= j

\* content.index(f"### {category}"): the 1-based position of the first line equal
\* to the heading, 0 for ValueError.
HeadingIndex(lines, cat) ==
    LET hits == {i \in 1..Len(lines) : lines[i] = "### " \o cat}
    IN IF hits = {} THEN 0 ELSE CHOOSE i \in hits : \A j \in hits : i <= j

\* Lines 157-163: the first line from `start` on that holds the contributor's
\* entry, searched up to the next heading; 0 for None.  (A found index is never
\* 0 in the code's 0-based counting, start_index being at least 1, so the test
\* `if existing_idx:` is the test for None.)
ExistingIdx(lines, start, fmt) ==
    LET stops == {i \in start..Len(lines) :
                     StartsWith(lines[i], "### ") \/ Contains(lines[i], fmt)}
    IN IF stops = {} THEN 0
       ELSE LET m == CHOOSE i \in stops : \A j \in stops : i <= j
            IN IF StartsWith(lines[m], "### ") THEN 0 ELSE m

\* A faulty scan: walks the run without looking for the tag.
RECURSIVE ScanRefsBlind(_, _, _)
ScanRefsBlind(lines, j, tag) ==
    IF j <= Len(lines) /\ StartsWith(lines[j], ">")
    THEN ScanRefsBlind(lines, j + 1, tag)
    ELSE [j |-> j, did_nothing |-> FALSE]

\* Lines 171-176: walk the run of lines starting with ">" from j on; stop on the
\* line that holds the tag.
RECURSIVE ScanRefs(_, _, _)
ScanRefs(lines, j, tag) ==
    IF j <= Len(lines) /\ StartsWith(lines[j], ">")
    THEN IF Contains(lines[j], tag)
         THEN [j |-> j, did_nothing |-> TRUE]
         ELSE ScanRefs(lines, j + 1, tag)
    ELSE [j |-> j, did_nothing |-> FALSE]

\* A faulty position: the first line of the section.
InsertIndexTop(lines, start) == start

\* Lines 182-184: the position of the next heading after `start`, or one past
\* the last line.
RECURSIVE InsertIndex(_, _)
InsertIndex(lines, start) ==
    IF start <= Len(lines) /\ ~StartsWith(lines[start], "### ")
    THEN InsertIndex(lines, start + 1)
    ELSE start

\* A faulty position: right after the entry line.
RefInsertAtEntry(lines, existing_idx, s) == existing_idx + 1

\* Line 179: the position the new reference line takes.
RefInsertAt(lines, existing_idx, s) == s.j

\* Lines 149-191 on the list `content`.
UpdateLines(lines, cat, fmt, tag) ==
    LET h == HeadingIndex(lines, cat)
        start_index == h + 1
        existing_idx == ExistingIdx(lines, start_index, fmt)
    IN IF h = 0
       THEN [found |-> FALSE, did_nothing |-> FALSE, existing_idx |-> 0,
             at |-> 0, content |-> lines]
       ELSE IF existing_idx # 0
       THEN LET s == ScanRefs(lines, existing_idx + 1, tag)
                at == RefInsertAt(lines, existing_idx, s)
            IN [found |-> TRUE, did_nothing |-> s.did_nothing,
                existing_idx |-> existing_idx, at |-> at,
                content |-> IF s.j = Len(lines) + 1 \/ ~StartsWith(lines[s.j], ">")
                            THEN InsertAt(lines, at, "> " \o tag)
                            ELSE lines]
       ELSE LET insert_index == InsertIndex(lines, start_index)
                c1 == InsertAt(lines, insert_index, fmt)
                c2 == InsertAt(c1, insert_index + 1, "> " \o "PRs: ")
                c3 == InsertAt(c2, insert_index + 2, "> " \o tag)
                c4 == InsertAt(c3, insert_index + 3, "")
            IN [found |-> TRUE, did_nothing |-> FALSE, existing_idx |-> 0,
                at |-> insert_index, content |-> c4]

\* ------------------------------------------------------------ the system
Workspaces == {1, 2}

\* Values of the PR_NUMBER environment variable ("" for unset or empty).
EnvPRNumbers == {"", "7", "8", "9"}

\* The AUTHORS.md texts the repository may hold at the start.
InitDocs ==
    { Pieces(t) : t \in
    { "### Engineering\n### Art\n### Design\n### Community & Support\n",
      "### Engineering\n- [Ada](ua)\n> PRs: \n> [#5](p5)\n\n### Art\n- [Cy](uc)\n> PRs: \n> [#5](p5)\n\n### Design\n### Community & Support\n",
      "# Authors\n\n### Engineering\n\n### Design\n\n### Community & Support\n\n",
      "### Art & Audio\n### Engineering\n- [Ada](ua)",
      "### Engineering\n- [bob](ub)\n> PRs: \n> [#9](p9)\n- [Ada](ua)\n> PRs: \n> [#5](p5), [#7](p7)\n### Art\n" } }

\* The blob sha the contents API reports for a text: a hash of its bytes, kept
\* here as what it hashes.
BlobSha(text) == <<"blob", text>>

NoOutcome == [kind |-> "none", exit |-> "clean", dry |-> FALSE, pr |-> ""]

\* Lines 116-141 for each pull request's files.
PRCategory == [n \in DOMAIN PullRequests |-> DominantCategory(PullRequests[n].files)]

Contribution(w) ==
    LET p == PullRequests[pr_number[w]]
    IN [category |-> PRCategory[pr_number[w]],
        contributor |-> ContributorFormat(DisplayName(p), p.profile_url),
        pr |-> pr_number[w]]

InitMain(doc) ==
    /\ upstream = doc
    /\ local = [w \in Workspaces |-> doc]
    /\ head = [w \in Workspaces |-> doc]
    /\ pc = [w \in Workspaces |-> "idle"]
    /\ pr_number = [w \in Workspaces |-> ""]
    /\ is_dry_run = [w \in Workspaces |-> FALSE]
    /\ category = [w \in Workspaces |-> ""]
    /\ read = [w \in Workspaces |-> <<>>]
    /\ content = [w \in Workspaces |-> <<>>]
    /\ sha = [w \in Workspaces |-> <<>>]
    /\ outcome = [w \in Workspaces |-> NoOutcome]
    /\ pushed = {}
    /\ applied = [w \in Workspaces |-> <<>>]
    /\ appliedUp = <<>>
    /\ runs = 0
    /\ original = doc

Init ==
    /\ \E doc \in InitDocs : InitMain(doc)
    /\ files = <<>>
    /\ chosen = DominantCategory(<<>>)

\* The workflow's checkout before the script runs: the working tree and its HEAD
\* become the upstream head.
Checkout(w) ==
    /\ local' = [local EXCEPT ![w] = upstream]
    /\ head' = [head EXCEPT ![w] = upstream]
    /\ applied' = [applied EXCEPT ![w] = appliedUp]

\* One run of the workflow: the checkout, then lines 242-252 with
\* get_merged_pr_info: a dry run takes the dummy PR "9", a real run PR_NUMBER,
\* and raises EnvironmentError when it is unset or empty.
Start(w) ==
    /\ pc[w] = "idle"
    /\ runs < MaxRuns
    /\ runs' = runs + 1
    /\ Checkout(w)
    /\ \E dry \in BOOLEAN, env \in EnvPRNumbers :
         /\ dry => env = ""
         /\ is_dry_run' = [is_dry_run EXCEPT ![w] = dry]
         /\ IF dry
            THEN /\ pr_number' = [pr_number EXCEPT ![w] = "9"]
                 /\ pc' = [pc EXCEPT ![w] = "update"]
                 /\ outcome' = [outcome EXCEPT ![w] = NoOutcome]
            ELSE IF env = ""
            THEN /\ outcome' = [outcome EXCEPT ![w] =
                        [kind |-> "missing_pr", exit |-> "failure",
                         dry |-> FALSE, pr |-> ""]]
                 /\ UNCHANGED <<pr_number, pc>>
            ELSE /\ pr_number' = [pr_number EXCEPT ![w] = env]
                 /\ pc' = [pc EXCEPT ![w] = "update"]
                 /\ outcome' = [outcome EXCEPT ![w] = NoOutcome]
    /\ UNCHANGED <<upstream, category, read, content, sha, pushed, appliedUp,
                   original, files, chosen>>

Ended(w, kind) ==
    [kind |-> kind, exit |-> "clean", dry |-> is_dry_run[w], pr |-> pr_number[w]]

\* Lines 88-204 and 227-229 of update_authors_md: fetch the PR, choose the
\* category, read and patch AUTHORS.md, write it back and stage it.
Update(w) ==
    /\ pc[w] = "update"
    /\ LET p == PullRequests[pr_number[w]]
           cat == PRCategory[pr_number[w]]
           fmt == ContributorFormat(DisplayName(p), p.profile_url)
           tag == RefTagFormat(pr_number[w], p.html_url)
           lines == SplitLines(local[w])
           r == UpdateLines(lines, cat, fmt, tag)
           text == Join(r.content)
       IN /\ category' = [category EXCEPT ![w] = cat]
          /\ read' = [read EXCEPT ![w] = lines]
          /\ content' = [content EXCEPT ![w] = r.content]
          /\ IF ~r.found
             THEN /\ outcome' = [outcome EXCEPT ![w] = Ended(w, "category_not_found")]
                  /\ pc' = [pc EXCEPT ![w] = "idle"]
                  /\ UNCHANGED <<local, applied>>
             ELSE IF r.did_nothing
             THEN /\ outcome' = [outcome EXCEPT ![w] = Ended(w, "no_update")]
                  /\ pc' = [pc EXCEPT ![w] = "idle"]
                  /\ UNCHANGED <<local, applied>>
             ELSE /\ local' = [local EXCEPT ![w] = text]
                  /\ applied' = [applied EXCEPT ![w] = Append(@, Contribution(w))]
                  /\ IF text # head[w] /\ ~is_dry_run[w]
                     THEN /\ pc' = [pc EXCEPT ![w] = "get_sha"]
                          /\ UNCHANGED outcome
                     ELSE /\ pc' = [pc EXCEPT ![w] = "idle"]
                          /\ outcome' = [outcome EXCEPT ![w] =
                                 Ended(w, IF text # head[w] THEN "dry_run"
                                          ELSE "clean_tree")]
    /\ UNCHANGED <<upstream, head, pr_number, is_dry_run, sha, pushed,
                   appliedUp, runs, original, files, chosen>>

\* Lines 206-211: GET contents/AUTHORS.md for the sha of the upstream blob.
GetSha(w) ==
    /\ pc[w] = "get_sha"
    /\ sha' = [sha EXCEPT ![w] = BlobSha(upstream)]
    /\ pc' = [pc EXCEPT ![w] = "put"]
    /\ UNCHANGED <<upstream, local, head, pr_number, is_dry_run, category, read,
                   content, outcome, pushed, applied, appliedUp, runs,
                   original, files, chosen>>

\* Lines 213-226: PUT contents/AUTHORS.md with the text and the sha.  The API
\* replaces the file (200) when the sha is that of the blob it holds, and
\* answers 409 otherwise; the script prints either way.
Put(w) ==
    /\ pc[w] = "put"
    /\ pc' = [pc EXCEPT ![w] = "idle"]
    /\ IF sha[w] = BlobSha(upstream)
       THEN /\ upstream' = Join(content[w])
            /\ appliedUp' = applied[w]
            /\ pushed' = pushed \cup {pr_number[w]}
            /\ outcome' = [outcome EXCEPT ![w] = Ended(w, "pushed")]
       ELSE /\ outcome' = [outcome EXCEPT ![w] = Ended(w, "push_failed")]
            /\ UNCHANGED <<upstream, appliedUp, pushed>>
    /\ UNCHANGED <<local, head, pr_number, is_dry_run, category, read, content,
                   sha, applied, runs, original, files, chosen>>

Next ==
    \E w \in Workspaces : Start(w) \/ Update(w) \/ GetSha(w) \/ Put(w)

Spec == Init /\ [][Next]_vars

\* ------------------------------------------------- the classifier alone
\* Entries of GET pulls/{n}/files: paths with the statuses the API reports.
FilePool ==
    { [filename |-> "src/Main.GD", status |-> "modified"],
      [filename |-> "icon.PNG", status |-> "added"],
      [filename |-> "lvl.tscn", status |-> "renamed"],
      [filename |-> "README.md", status |-> "removed"],
      [filename |-> "notes.txt", status |-> "added"],
      [filename |-> "tool.py", status |-> "copied"],
      [filename |-> "Makefile", status |-> "modified"] }

InitClassify ==
    /\ InitMain(<<"">>)
    /\ files = <<>>
    /\ chosen = DominantCategory(<<>>)

\* Lines 116-141 on a list of changed files one entry longer.
Classify ==
    /\ Len(files) < MaxFiles
    /\ \E f \in FilePool :
         /\ files' = Append(files, f)
         /\ chosen' = DominantCategory(Append(files, f))
    /\ UNCHANGED mainVars

SpecClassify == InitClassify /\ [][Classify]_vars

\* ------------------------------------------------------ C4, C5: classifier
CategoryOrder == <<"Engineering", "Art", "Design", "Community & Support">>

ExtensionsOf(c) ==
    CASE c = "Engineering" -> Range(ENGINEERING_EXTENSIONS)
      [] c = "Art" -> Range(ART_EXTENSIONS)
      [] c = "Design" -> Range(DESIGN_EXTENSIONS)
      [] c = "Community & Support" -> Range(COMMUNITY_EXTENSIONS)

AcceptedOf(c) ==
    CASE c = "Engineering" -> Range(ENGINEERING_CRITRIA)
      [] c = "Art" -> Range(ART_CRITRIA)
      [] c = "Design" -> Range(DESIGN_CRITRIA)
      [] c = "Community & Support" -> Range(COMMUNITY_CRITRIA)

Suffixes(s) == {SubSeq(s, i, Len(s)) : i \in 1..Len(s)}

ExtensionMatch(f, c) == Suffixes(Lower(f.filename)) \cap ExtensionsOf(c) # {}

FileMatch(f, c) == ExtensionMatch(f, c) /\ f.status \in AcceptedOf(c)

MatchCount(c) == Cardinality({i \in 1..Len(files) : FileMatch(files[i], c)})

Position(c) == CHOOSE i \in 1..Len(CategoryOrder) : CategoryOrder[i] = c

\* C4: whenever no changed file matches any configured extension of any
\* category (the empty list and every list of non-matching files), the chosen
\* category is "Community & Support".
C4_FallbackCommunity ==
    (\A i \in 1..Len(files) : \A c \in Range(CategoryOrder) : ~ExtensionMatch(files[i], c))
        => chosen = "Community & Support"

\* C5: when at least one file matches, the chosen category has the greatest
\* count of matching files and no category earlier in the order Engineering,
\* Art, Design, Community & Support has the same count; when every file
\* matches one and the same category only, that category is chosen.
C5_FirstWinsArgmax ==
    /\ (\E i \in 1..Len(files) : \E c \in Range(CategoryOrder) : FileMatch(files[i], c))
          => /\ chosen \in Range(CategoryOrder)
             /\ \A c \in Range(CategoryOrder) :
                   /\ MatchCount(c) <= MatchCount(chosen)
                   /\ Position(c) < Position(chosen) => MatchCount(c) < MatchCount(chosen)
    /\ \A c \in Range(CategoryOrder) :
          (/\ Len(files) > 0
           /\ \A i \in 1..Len(files) :
                 \A d \in Range(CategoryOrder) : FileMatch(files[i], d) <=> d = c)
             => chosen = c

\* A tie between Art and Design at a count of at least one, won by Art.
C5_Witness ==
    /\ MatchCount("Art") >= 1
    /\ MatchCount("Art") = MatchCount("Design")
    /\ MatchCount("Engineering") < MatchCount("Art")
    /\ chosen = "Art"

\* --------------------------------------------- the document, as claimed
\* The invocation in w has run lines 144-195 for pr_number[w]: read[w] and
\* content[w] are its lines before and after the patch.
Patched(w) ==
    \/ pc[w] \in {"get_sha", "put"}
    \/ /\ pc[w] = "idle"
       /\ outcome[w].kind \in {"category_not_found", "no_update", "dry_run",
                               "clean_tree", "pushed", "push_failed"}

EntryLine(w) ==
    LET p == PullRequests[pr_number[w]]
    IN "- [" \o (IF p.name = "" THEN p.login ELSE p.name) \o "](" \o p.profile_url \o ")"

TagOf(n) == "[#" \o n \o "](" \o PullRequests[n].html_url \o ")"

Least(S) == CHOOSE i \in S : \A j \in S : i <= j

HasHeading(lines, cat) == \E i \in 1..Len(lines) : lines[i] = "### " \o cat

\* The position of the category's heading, and of the line that ends its
\* section: the next line starting with "### ", or one past the last line.
HeadingPos(lines, cat) == Least({i \in 1..Len(lines) : lines[i] = "### " \o cat})

SectionEnd(lines, h) ==
    Least({i \in (h + 1)..(Len(lines) + 1) :
              i = Len(lines) + 1 \/ StartsWith(lines[i], "### ")})

\* The lines of the section that hold the contributor's entry.
EntryLines(lines, cat, entry) ==
    LET h == HeadingPos(lines, cat)
    IN {i \in (h + 1)..(SectionEnd(lines, h) - 1) : Contains(lines[i], entry)}

\* The last line of the run of lines starting with ">" that follows line x
\* (x itself when the run is empty).
RunEnd(lines, x) ==
    Least({y \in x..Len(lines) : y = Len(lines) \/ ~StartsWith(lines[y + 1], ">")})

\* `after` is `before` with the lines `block` inserted so that they start at k.
InsertedAt(before, after, k, block) ==
    after = SubSeq(before, 1, k - 1) \o block \o SubSeq(before, k, Len(before))

Block(w) == <<EntryLine(w), "> PRs: ", "> " \o TagOf(pr_number[w]), "">>

Changed(w) == outcome[w].kind # "no_update" /\ local[w] = Join(content[w])

\* ------------------------------------------------------- C1: idempotence
WasApplied(w) == \E i \in 1..Len(applied[w]) : applied[w][i] = Contribution(w)

\* C1: once a (category, contributor, PR) contribution has been applied to the
\* document, applying it again, at once or after other contributions, reports
\* "no update needed", inserts no line and leaves the document as it was; the
\* PR's reference stands on one line only.
C1_Idempotent ==
    /\ [][\A w \in Workspaces :
            (pc[w] = "update" /\ pc'[w] # "update" /\ WasApplied(w))
               => /\ outcome'[w].kind = "no_update"
                  /\ read'[w] = SplitLines(local[w])
                  /\ content'[w] = read'[w]
                  /\ local'[w] = local[w]
                  /\ pc'[w] = "idle"]_vars
    /\ [](\A w \in Workspaces : \A i \in 1..Len(applied[w]) :
            LET lines == SplitLines(local[w])
            IN Cardinality({k \in 1..Len(lines) :
                               Contains(lines[k], TagOf(applied[w][i].pr))}) = 1)

\* A contribution was applied, then another one, and the first one, applied
\* again, was reported as needing no update.
C1_Witness ==
    \E w \in Workspaces :
        /\ pc[w] = "idle"
        /\ outcome[w].kind = "no_update"
        /\ Len(applied[w]) >= 2
        /\ applied[w][1] = Contribution(w)
        /\ applied[w][2] # Contribution(w)

\* ------------------------------------------- C2: insertion of a new entry
NewContributor(w) ==
    /\ Patched(w)
    /\ HasHeading(read[w], category[w])
    /\ EntryLines(read[w], category[w], EntryLine(w)) = {}

\* C2 as claimed: for a document with the heading and no entry of the
\* contributor in the section, one application inserts exactly one block (entry
\* line, PRs label, one reference line, blank line) as the first entry under the
\* heading: no entry line of the section stands before it.
C2_FirstUnderHeading ==
    \A w \in Workspaces :
        NewContributor(w) =>
            LET h == HeadingPos(read[w], category[w])
            IN \E k \in (h + 1)..(Len(read[w]) + 1) :
                  /\ InsertedAt(read[w], content[w], k, Block(w))
                  /\ \A i \in (h + 1)..(k - 1) : ~StartsWith(read[w][i], "- ")

\* C2 as amended: the one block is inserted at the end of the section, right
\* before the next line starting with "### " or, when there is none, at the end
\* of the document.
C2_AtSectionEnd ==
    \A w \in Workspaces :
        NewContributor(w) =>
            /\ InsertedAt(read[w], content[w],
                          SectionEnd(read[w], HeadingPos(read[w], category[w])), Block(w))
            /\ Changed(w)

\* A new contributor's block was inserted into a section that held another
\* contributor's entry.
C2_Witness ==
    \E w \in Workspaces :
        /\ NewContributor(w)
        /\ Len(content[w]) = Len(read[w]) + 4
        /\ LET h == HeadingPos(read[w], category[w])
           IN \E i \in (h + 1)..(SectionEnd(read[w], h) - 1) :
                 StartsWith(read[w][i], "- ")

\* ------------------------------------ C6: existing contributor, new PR
ExistingNewPR(w) ==
    /\ Patched(w)
    /\ HasHeading(read[w], category[w])
    /\ EntryLines(read[w], category[w], EntryLine(w)) # {}
    /\ LET x == Least(EntryLines(read[w], category[w], EntryLine(w)))
       IN \A i \in (x + 1)..RunEnd(read[w], x) :
             ~Contains(read[w][i], TagOf(pr_number[w]))

\* C6: when the contributor's entry line is in the section and no line of the
\* run of ">" lines after it holds the PR's tag, one application inserts one
\* reference line right after the last line of the run, reports a change, adds
\* no entry line and leaves the lines up to the end of the run where they were.
C6_AppendsReference ==
    \A w \in Workspaces :
        ExistingNewPR(w) =>
            LET x == Least(EntryLines(read[w], category[w], EntryLine(w)))
                y == RunEnd(read[w], x)
            IN /\ InsertedAt(read[w], content[w], y + 1,
                             <<"> " \o TagOf(pr_number[w])>>)
               /\ Changed(w)
               /\ Cardinality({i \in 1..Len(content[w]) :
                                  Contains(content[w][i], EntryLine(w))})
                    = Cardinality({i \in 1..Len(read[w]) :
                                      Contains(read[w][i], EntryLine(w))})
               /\ \A i \in 1..y : content[w][i] = read[w][i]

\* A reference was appended to a run of at least two ">" lines.
C6_Witness ==
    \E w \in Workspaces :
        /\ ExistingNewPR(w)
        /\ LET x == Least(EntryLines(read[w], category[w], EntryLine(w)))
           IN RunEnd(read[w], x) >= x + 2
        /\ Len(content[w]) = Len(read[w]) + 1

\* ------------------------------------------------- C9: missing heading
\* C9: when no line of the document equals "### <category>", the update ends
\* as category-not-found with no line inserted, the stored document as it was
\* checked out, and no request for the upstream write (the invocation ends
\* there and the PR is not among the pushed ones).
C9_MissingHeadingAborts ==
    \A w \in Workspaces :
        (Patched(w) /\ ~HasHeading(read[w], category[w]))
            => /\ outcome[w].kind = "category_not_found"
               /\ pc[w] = "idle"
               /\ content[w] = read[w]
               /\ local[w] = head[w]
               /\ SplitLines(local[w]) = read[w]
               /\ pr_number[w] \notin pushed

\* An invocation met a document with headings, none of them its category's.
C9_Witness ==
    \E w \in Workspaces :
        /\ Patched(w)
        /\ ~HasHeading(read[w], category[w])
        /\ HasHeading(read[w], "Engineering")
        /\ outcome[w].kind = "category_not_found"

\* --------------------------------------------- C10: insertion-only frame
HeadingCount(lines, c) == Cardinality({i \in 1..Len(lines) : lines[i] = "### " \o c})

RECURSIVE IsSubseq(_, _)
IsSubseq(a, b) ==
    IF Len(a) = 0 THEN TRUE
    ELSE IF Len(b) = 0 THEN FALSE
    ELSE IF a[1] = b[1] THEN IsSubseq(Tail(a), Tail(b))
    ELSE IsSubseq(a, Tail(b))

NonEmpty(lines) == SelectSeq(lines, LAMBDA l : l # "")

\* The lines of a stored text keep the non-empty lines of the original document
\* in their order, and its number of heading lines per category.
KeepsOriginal(text) ==
    /\ IsSubseq(NonEmpty(SplitLines(original)), SplitLines(text))
    /\ \A c \in Range(CategoryOrder) :
          HeadingCount(SplitLines(text), c) = HeadingCount(SplitLines(original), c)

C3_NoLostUpdate ==
    \A n \in pushed :
        LET lines == SplitLines(upstream)
        IN \E i \in 1..Len(lines) : Contains(lines[i], TagOf(n))

\* C7: a missing PR identifier, a missing category heading and a failed upstream
\* write each end the invocation with a failure signal.
C7_ErrorsFail ==
    \A w \in Workspaces :
        outcome[w].kind \in {"missing_pr", "category_not_found", "push_failed"}
            => outcome[w].exit = "failure"

\* C8: a dry run never asks for the upstream write, and when it has ended the
\* local AUTHORS.md is the text that was checked out.
C8_DryRunPersistsNothing ==
    \A w \in Workspaces :
        /\ is_dry_run[w] => pc[w] \notin {"get_sha", "put"}
        /\ (pc[w] = "idle" /\ outcome[w].dry) => local[w] = head[w]

====
